---- MODULE Spec2Model ----
(***************************************************************************)
(* Model of the Caddy middleware ModelRouter (caddy-model-router.go).      *)
(*                                                                         *)
(* A byte string is a sequence of one-character strings; every character   *)
(* used is ASCII, so the length of a sequence is its byte count.  A Go     *)
(* value decoded by encoding/json into interface{} is a tagged record:     *)
(*   [t |-> "null"]            nil                                         *)
(*   [t |-> "bool", b |-> _]   bool                                        *)
(*   [t |-> "num",  n |-> _]   float64 holding a non-negative integer,     *)
(*                             as its binary digits, most significant      *)
(*                             first (<<>> is zero)                        *)
(*   [t |-> "str",  s |-> _]   string                                      *)
(*   [t |-> "arr",  a |-> _]   []interface{}                               *)
(*   [t |-> "obj",  o |-> _]   map[string]interface{}, a function from     *)
(*                             keys to values                              *)
(* A JSON document as written on the wire is the same tree with exact      *)
(* numbers [t |-> "num", d |-> decimal digits] and objects as member       *)
(* lists [t |-> "obj", m |-> <<[k |-> key, v |-> value], ...>>].           *)
(***************************************************************************)
EXTENDS Integers, Sequences, FiniteSets, TLC

\* ------------------------------------------------------------------ bounds

\* Longest `messages` array a generated request body carries.
MaxMsgs == 2

\* Most path pieces a generated request target is made of.
MaxSegs == 2

\* ------------------------------------------------------- program constants

\* Significant binary digits of a float64, the type encoding/json decodes a
\* JSON number into when the destination is interface{}.
MantissaBits == 53

\* http.StatusBadRequest
StatusBadRequest == 400

\* ------------------------------------------------------------- evaluation

\* The element of a one-element set. The({e(x) : x \in {v}}) is
\* LET x == v IN e(x) with v computed once, for a v that is costly to
\* compute and used more than once.
The(S) == CHOOSE z \in S : TRUE

\* ------------------------------------------------------------- characters

\* The characters in use, in ASCII order (Go sorts map keys bytewise).
Ascii ==
    << "\n", " ", "\"", "%", ",", "-", ".", "/",
       "0", "1", "2", "3", "4", "5", "6", "7", "8", "9", ":",
       "F", "M", "[", "\\", "]",
       "a", "b", "c", "d", "e", "f", "g", "h", "i", "j", "k", "l", "m",
       "n", "o", "p", "q", "r", "s", "t", "u", "v", "w", "x", "y", "z",
       "{", "}" >>

Ord(c) == CHOOSE i \in 1..Len(Ascii) : Ascii[i] = c

Digits == <<"0", "1", "2", "3", "4", "5", "6", "7", "8", "9">>

IsDigit(c) == \E i \in 1..10 : Digits[i] = c

DigitVal(c) == (CHOOSE i \in 1..10 : Digits[i] = c) - 1

DigitChar(v) == Digits[v + 1]

\* s[i..] (Go's s[i-1:]).
Tail2(s, i) == SubSeq(s, i, Len(s))

\* strings.HasPrefix(s[i-1:], sub)
HasPrefixAt(s, i, sub) ==
    /\ i + Len(sub) - 1 <= Len(s)
    /\ SubSeq(s, i, i + Len(sub) - 1) = sub

RECURSIVE IndexFrom(_, _, _)
IndexFrom(s, sub, i) ==
    IF i + Len(sub) - 1 > Len(s) THEN 0
    ELSE IF HasPrefixAt(s, i, sub) THEN i
    ELSE IndexFrom(s, sub, i + 1)

\* strings.Index, 1-based; 0 when sub does not occur.
Index(s, sub) == IndexFrom(s, sub, 1)

\* strings.Contains
Contains(s, sub) == Index(s, sub) # 0

\* strings.Replace(s, old, new, -1) for a non-empty old.
RECURSIVE ReplaceAll(_, _, _)
ReplaceAll(s, old, new) ==
    LET j == Index(s, old) IN
    IF j = 0 THEN s
    ELSE SubSeq(s, 1, j - 1) \o new \o ReplaceAll(Tail2(s, j + Len(old)), old, new)

\* strings.Replace(s, old, new, 1): the leftmost occurrence of old, if any.
Replace1(s, old, new) ==
    LET j == Index(s, old) IN
    IF j = 0 THEN s
    ELSE SubSeq(s, 1, j - 1) \o new \o Tail2(s, j + Len(old))

\* strings.Join(elems, sep) with a leading separator before every element.
RECURSIVE JoinLeading(_, _)
JoinLeading(elems, sep) ==
    IF elems = <<>> THEN <<>>
    ELSE sep \o Head(elems) \o JoinLeading(Tail(elems), sep)

\* strings.Join(elems, sep)
RECURSIVE Join(_, _)
Join(elems, sep) ==
    IF elems = <<>> THEN <<>>
    ELSE IF Len(elems) = 1 THEN elems[1]
    ELSE elems[1] \o sep \o Join(Tail(elems), sep)

\* Bytewise order of two strings (sort.Strings on the map keys).
RECURSIVE LessStr(_, _)
LessStr(a, b) ==
    IF b = <<>> THEN FALSE
    ELSE IF a = <<>> THEN TRUE
    ELSE IF Head(a) = Head(b) THEN LessStr(Tail(a), Tail(b))
    ELSE Ord(Head(a)) < Ord(Head(b))

RECURSIVE SortedKeys(_)
SortedKeys(S) ==
    The({ IF T = {} THEN <<>>
          ELSE The({ <<k>> \o SortedKeys(T \ {k}) :
                     k \in {CHOOSE x \in T : \A y \in T : y = x \/ LessStr(x, y)} })
          : T \in {S} })

\* ---------------------------------------------------------------- numbers

\* decimal digits \div 256 and decimal digits % 256: one base-256 step of
\* the decimal-to-binary conversion.
RECURSIVE DivDec(_, _)
DivDec(d, carry) ==
    IF d = <<>> THEN <<>>
    ELSE LET x == carry * 10 + DigitVal(Head(d))
         IN <<DigitChar(x \div 256)>> \o DivDec(Tail(d), x % 256)

RECURSIVE ModDec(_, _)
ModDec(d, carry) ==
    IF d = <<>> THEN carry
    ELSE ModDec(Tail(d), (carry * 10 + DigitVal(Head(d))) % 256)

RECURSIVE StripZeros(_)
StripZeros(d) ==
    IF d # <<>> /\ Head(d) = "0" THEN StripZeros(Tail(d)) ELSE d

RECURSIVE StripZeroBits(_)
StripZeroBits(b) ==
    IF b # <<>> /\ Head(b) = 0 THEN StripZeroBits(Tail(b)) ELSE b

ByteBits(n) == [i \in 1..8 |-> (n \div 2^(8 - i)) % 2]

RECURSIVE ByteVal(_)
ByteVal(b) ==
    IF b = <<>> THEN 0
    ELSE 2 * ByteVal(SubSeq(b, 1, Len(b) - 1)) + b[Len(b)]

RECURSIVE DecToBytes(_)
DecToBytes(d) ==
    The({ IF s = <<>> THEN <<>>
          ELSE DecToBytes(DivDec(s, 0)) \o ByteBits(ModDec(s, 0))
          : s \in {StripZeros(d)} })

\* The binary digits of a decimal integer, most significant first.
DecToBits(d) == StripZeroBits(DecToBytes(d))

\* bits + 1
RECURSIVE IncBits(_)
IncBits(b) ==
    IF b = <<>> THEN <<1>>
    ELSE IF b[Len(b)] = 0 THEN Append(SubSeq(b, 1, Len(b) - 1), 1)
    ELSE Append(IncBits(SubSeq(b, 1, Len(b) - 1)), 0)

Zeros(n) == [i \in 1..n |-> 0]

\* The float64 nearest to the integer with binary digits b (round half to
\* even): strconv.ParseFloat(s, 64) on an integer literal.
RoundFloat64(b) ==
    IF Len(b) <= MantissaBits THEN b
    ELSE LET keep == SubSeq(b, 1, MantissaBits)
             rest == SubSeq(b, MantissaBits + 1, Len(b))
             half == <<1>> \o Zeros(Len(rest) - 1)
             up   == \/ rest[1] = 1 /\ rest # half
                     \/ rest = half /\ keep[MantissaBits] = 1
         IN (IF up THEN IncBits(keep) ELSE keep) \o Zeros(Len(rest))

RECURSIVE NatDec(_)
NatDec(n) ==
    IF n < 10 THEN <<DigitChar(n)>>
    ELSE Append(NatDec(n \div 10), DigitChar(n % 10))

\* decimal digits * 256 + carry
RECURSIVE MulDec(_, _)
MulDec(d, carry) ==
    IF d = <<>> THEN (IF carry = 0 THEN <<>> ELSE NatDec(carry))
    ELSE LET x == DigitVal(d[Len(d)]) * 256 + carry
         IN Append(MulDec(SubSeq(d, 1, Len(d) - 1), x \div 10), DigitChar(x % 10))

RECURSIVE BytesToDecAcc(_, _)
BytesToDecAcc(b, acc) ==
    The({ IF p[1] = <<>> THEN p[2]
          ELSE BytesToDecAcc(SubSeq(p[1], 9, Len(p[1])),
                             MulDec(p[2], ByteVal(SubSeq(p[1], 1, 8))))
          : p \in {<<b, acc>>} })

\* The decimal digits of the integer with binary digits b:
\* strconv.AppendFloat(_, f, 'f', -1, 64) for an integer-valued f below 2^54,
\* where the shortest digits that round-trip are the exact ones.
BitsToDec(b) ==
    LET d == BytesToDecAcc(Zeros((8 - (Len(b) % 8)) % 8) \o b, <<>>)
    IN IF d = <<>> THEN <<"0">> ELSE d

\* ------------------------------------------------------------------- JSON

NoDoc == [t |-> "null"]

Fail == [ok |-> FALSE, v |-> NoDoc, i |-> 0]

Ok(v, i) == [ok |-> TRUE, v |-> v, i |-> i]

IsSpace(c) == c = " " \/ c = "\n"

RECURSIVE SkipWs(_, _)
SkipWs(b, i) ==
    IF i <= Len(b) /\ IsSpace(b[i]) THEN SkipWs(b, i + 1) ELSE i

\* The characters of a string literal whose opening quote precedes b[i];
\* acc is what has been decoded so far.
RECURSIVE ParseString(_, _, _)
ParseString(b, i, acc) ==
    IF i > Len(b) THEN Fail
    ELSE IF b[i] = "\"" THEN Ok([t |-> "str", s |-> acc], i + 1)
    ELSE IF b[i] = "\n" THEN Fail
    ELSE IF b[i] = "\\" THEN
        IF i + 1 > Len(b) THEN Fail
        ELSE IF b[i + 1] = "n" THEN ParseString(b, i + 2, Append(acc, "\n"))
        ELSE IF b[i + 1] \in {"\"", "\\", "/"} THEN
            ParseString(b, i + 2, Append(acc, b[i + 1]))
        ELSE Fail
    ELSE ParseString(b, i + 1, Append(acc, b[i]))

RECURSIVE DigitsEnd(_, _)
DigitsEnd(b, i) ==
    IF i <= Len(b) /\ IsDigit(b[i]) THEN DigitsEnd(b, i + 1) ELSE i

\* A non-negative integer literal starting at b[i] (the generated bodies
\* carry no sign, fraction or exponent).
ParseNumber(b, i) ==
    LET j == DigitsEnd(b, i) IN
    IF b[i] = "0" /\ j > i + 1 THEN Fail
    ELSE Ok([t |-> "num", d |-> SubSeq(b, i, j - 1)], j)

LitNull == <<"n", "u", "l", "l">>

LitTrue == <<"t", "r", "u", "e">>

LitFalse == <<"f", "a", "l", "s", "e">>

RECURSIVE ParseValue(_, _)
RECURSIVE ParseElements(_, _, _)
RECURSIVE ParseMembers(_, _, _)

\* The JSON value starting at b[i] (leading space already skipped).
ParseValue(b, i) ==
    IF i > Len(b) THEN Fail
    ELSE IF b[i] = "\"" THEN ParseString(b, i + 1, <<>>)
    ELSE IF IsDigit(b[i]) THEN ParseNumber(b, i)
    ELSE IF HasPrefixAt(b, i, LitNull) THEN Ok([t |-> "null"], i + 4)
    ELSE IF HasPrefixAt(b, i, LitTrue) THEN Ok([t |-> "bool", b |-> TRUE], i + 4)
    ELSE IF HasPrefixAt(b, i, LitFalse) THEN Ok([t |-> "bool", b |-> FALSE], i + 5)
    ELSE IF b[i] = "[" THEN
        LET j == SkipWs(b, i + 1) IN
        IF j <= Len(b) /\ b[j] = "]" THEN Ok([t |-> "arr", a |-> <<>>], j + 1)
        ELSE ParseElements(b, j, <<>>)
    ELSE IF b[i] = "{" THEN
        LET j == SkipWs(b, i + 1) IN
        IF j <= Len(b) /\ b[j] = "}" THEN Ok([t |-> "obj", m |-> <<>>], j + 1)
        ELSE ParseMembers(b, j, <<>>)
    ELSE Fail

\* The elements of an array from b[i] on; acc holds the ones already read.
ParseElements(b, i, acc) ==
    The({ IF ~e.ok THEN Fail
          ELSE LET j == SkipWs(b, e.i) IN
               IF j > Len(b) THEN Fail
               ELSE IF b[j] = "]" THEN Ok([t |-> "arr", a |-> Append(acc, e.v)], j + 1)
               ELSE IF b[j] = "," THEN ParseElements(b, SkipWs(b, j + 1), Append(acc, e.v))
               ELSE Fail
          : e \in {ParseValue(b, i)} })

\* The members of an object from b[i] on; acc holds the ones already read.
ParseMembers(b, i, acc) ==
    IF i > Len(b) \/ b[i] # "\"" THEN Fail
    ELSE The({
         IF ~k.ok THEN Fail
         ELSE LET c == SkipWs(b, k.i) IN
              IF c > Len(b) \/ b[c] # ":" THEN Fail
              ELSE The({
                   IF ~e.ok THEN Fail
                   ELSE LET j   == SkipWs(b, e.i)
                            mem == Append(acc, [k |-> k.v.s, v |-> e.v])
                        IN IF j > Len(b) THEN Fail
                           ELSE IF b[j] = "}" THEN Ok([t |-> "obj", m |-> mem], j + 1)
                           ELSE IF b[j] = "," THEN ParseMembers(b, SkipWs(b, j + 1), mem)
                           ELSE Fail
                   : e \in {ParseValue(b, SkipWs(b, c + 1))} })
         : k \in {ParseString(b, i + 1, <<>>)} })

\* The whole of b as one JSON document (surrounding space allowed).
ParseDocument(b) ==
    The({ IF e.ok /\ SkipWs(b, e.i) = Len(b) + 1 THEN e ELSE Fail
          : e \in {ParseValue(b, SkipWs(b, 1))} })

EmptyMap == [k \in {} |-> NoDoc]

RECURSIVE ToGo(_)
RECURSIVE MembersToMap(_, _)

\* The Go value encoding/json stores into an interface{} for a document:
\* numbers become float64, objects become maps (a repeated key keeps its
\* last value).
ToGo(doc) ==
    CASE doc.t = "num" -> [t |-> "num", n |-> The({RoundFloat64(b) : b \in {DecToBits(doc.d)}})]
      [] doc.t = "arr" -> [t |-> "arr", a |-> [i \in 1..Len(doc.a) |-> ToGo(doc.a[i])]]
      [] doc.t = "obj" -> [t |-> "obj", o |-> MembersToMap(doc.m, EmptyMap)]
      [] OTHER -> doc

MembersToMap(m, acc) ==
    IF m = <<>> THEN acc
    ELSE MembersToMap(Tail(m), (m[1].k :> ToGo(m[1].v)) @@ acc)

\* json.Unmarshal(bodyBytes, &requestData) with requestData a nil
\* map[string]interface{}: an error unless the document is an object or
\* null; null leaves the map nil, which reads as the empty map.
Unmarshal(b) ==
    The({ IF ~e.ok THEN [err |-> TRUE, data |-> EmptyMap]
          ELSE IF e.v.t = "obj" THEN [err |-> FALSE, data |-> ToGo(e.v).o]
          ELSE IF e.v.t = "null" THEN [err |-> FALSE, data |-> EmptyMap]
          ELSE [err |-> TRUE, data |-> EmptyMap]
          : e \in {ParseDocument(b)} })

\* A string literal: the quotes, and the escapes encoding/json writes.
RECURSIVE EscapeChars(_)
EscapeChars(s) ==
    IF s = <<>> THEN <<>>
    ELSE (CASE Head(s) = "\n" -> <<"\\", "n">>
            [] Head(s) = "\"" -> <<"\\", "\"">>
            [] Head(s) = "\\" -> <<"\\", "\\">>
            [] OTHER -> <<Head(s)>>) \o EscapeChars(Tail(s))

Quote(s) == <<"\"">> \o EscapeChars(s) \o <<"\"">>

RECURSIVE MarshalValue(_)
RECURSIVE MarshalSeq(_)
RECURSIVE MarshalMap(_, _)

\* json.Marshal of a decoded value: compact, map keys sorted.
MarshalValue(v) ==
    CASE v.t = "null" -> LitNull
      [] v.t = "bool" -> (IF v.b THEN LitTrue ELSE LitFalse)
      [] v.t = "num"  -> BitsToDec(v.n)
      [] v.t = "str"  -> Quote(v.s)
      [] v.t = "arr"  -> <<"[">> \o MarshalSeq(v.a) \o <<"]">>
      [] v.t = "obj"  -> <<"{">> \o MarshalMap(v.o, SortedKeys(DOMAIN v.o)) \o <<"}">>

MarshalSeq(a) ==
    IF a = <<>> THEN <<>>
    ELSE IF Len(a) = 1 THEN MarshalValue(a[1])
    ELSE MarshalValue(a[1]) \o <<",">> \o MarshalSeq(Tail(a))

MarshalMap(o, keys) ==
    IF keys = <<>> THEN <<>>
    ELSE Quote(keys[1]) \o <<":">> \o MarshalValue(o[keys[1]])
         \o (IF Len(keys) = 1 THEN <<>> ELSE <<",">> \o MarshalMap(o, Tail(keys)))

\* json.Marshal(requestData)
Marshal(data) == MarshalValue([t |-> "obj", o |-> data])

\* --------------------------------------------------------------- literals

\* "chat/completions"
Marker == <<"c", "h", "a", "t", "/", "c", "o", "m", "p", "l", "e", "t", "i", "o", "n", "s">>

\* "responses"
Responses == <<"r", "e", "s", "p", "o", "n", "s", "e", "s">>

\* "/v1/chat/completions" and "/v1/responses"
V1Chat == <<"/", "v", "1", "/">> \o Marker

V1Responses == <<"/", "v", "1", "/">> \o Responses

\* "/api/chat/completions" and "/api/responses"
ApiChat == <<"/", "a", "p", "i", "/">> \o Marker

ApiResponses == <<"/", "a", "p", "i", "/">> \o Responses

\* "gpt-5.1-codex-mini"
DefaultModel ==
    <<"g", "p", "t", "-", "5", ".", "1", "-", "c", "o", "d", "e", "x", "-", "m", "i", "n", "i">>

KModel == <<"m", "o", "d", "e", "l">>

KMessages == <<"m", "e", "s", "s", "a", "g", "e", "s">>

KContent == <<"c", "o", "n", "t", "e", "n", "t">>

KRole == <<"r", "o", "l", "e">>

KInput == <<"i", "n", "p", "u", "t">>

\* ------------------------------------------------------- inbound requests

Str(s) == [t |-> "str", s |-> s]

Num(d) == [t |-> "num", d |-> d]

Arr(a) == [t |-> "arr", a |-> a]

Obj(m) == [t |-> "obj", m |-> m]

Mem(k, v) == [k |-> k, v |-> v]

RECURSIVE Render(_, _)
RECURSIVE RenderSeq(_, _)
RECURSIVE RenderMembers(_, _)

\* The bytes a client writes for a document; sp adds a space after every
\* colon and comma.
Render(doc, sp) ==
    CASE doc.t = "null" -> LitNull
      [] doc.t = "bool" -> (IF doc.b THEN LitTrue ELSE LitFalse)
      [] doc.t = "num"  -> doc.d
      [] doc.t = "str"  -> Quote(doc.s)
      [] doc.t = "arr"  -> <<"[">> \o RenderSeq(doc.a, sp) \o <<"]">>
      [] doc.t = "obj"  -> <<"{">> \o RenderMembers(doc.m, sp) \o <<"}">>

RenderSeq(a, sp) ==
    IF a = <<>> THEN <<>>
    ELSE Render(a[1], sp)
         \o (IF Len(a) = 1 THEN <<>>
             ELSE <<",">> \o (IF sp THEN <<" ">> ELSE <<>>) \o RenderSeq(Tail(a), sp))

RenderMembers(m, sp) ==
    IF m = <<>> THEN <<>>
    ELSE Quote(m[1].k) \o <<":">> \o (IF sp THEN <<" ">> ELSE <<>>) \o Render(m[1].v, sp)
         \o (IF Len(m) = 1 THEN <<>>
             ELSE <<",">> \o (IF sp THEN <<" ">> ELSE <<>>) \o RenderMembers(Tail(m), sp))

\* All sequences over S of length at most n.
SeqsUpTo(S, n) == UNION {[1..k -> S] : k \in 0..n}

M1 == <<"m", "1">>

M2 == <<"m", "2">>

User == <<"u", "s", "e", "r">>

\* Entries of a `messages` array: two usable ones, one with empty content,
\* one that is not an object.
MsgEntries ==
    { Obj(<<Mem(KRole, Str(User)), Mem(KContent, Str(<<"a">>))>>),
      Obj(<<Mem(KContent, Str(<<"b", " ", "c">>))>>),
      Obj(<<Mem(KRole, Str(User)), Mem(KContent, Str(<<>>))>>),
      Str(<<"x">>) }

\* `messages` values that are arrays of at most MaxMsgs entries.
MsgArrays == {Arr(a) : a \in SeqsUpTo(MsgEntries, MaxMsgs)}

\* `messages` values of other shapes: not a sequence, null, entries whose
\* content is missing or not a string, content holding a newline.
MsgOdd ==
    { Str(<<"x">>),
      [t |-> "null"],
      Arr(<<Obj(<<Mem(KRole, Str(<<"x">>))>>)>>),
      Arr(<<Obj(<<Mem(KContent, Num(<<"1">>))>>)>>),
      Arr(<<Obj(<<Mem(KContent, Num(<<"7">>))>>), Obj(<<Mem(KContent, Str(<<"d", "\n", "e">>))>>),
            [t |-> "null"], Obj(<<Mem(KContent, [t |-> "bool", b |-> TRUE]), Mem(KRole, Str(User))>>),
            Obj(<<Mem(KRole, Num(<<"3">>)), Mem(KContent, Str(<<"f">>))>>)>>) }

OneMsg == Arr(<<Obj(<<Mem(KRole, Str(User)), Mem(KContent, Str(<<"h", "i">>))>>)>>)

\* 2^53 + 1, the least integer a float64 cannot hold.
BigSeed == <<"9", "0", "0", "7", "1", "9", "9", "2", "5", "4", "7", "4", "0", "9", "9", "3">>

KSeed == <<"s", "e", "e", "d">>

KStream == <<"s", "t", "r", "e", "a", "m">>

KUser == User

\* Request bodies that are JSON objects.
ObjectBodies ==
    {Render(Obj(<<Mem(KModel, Str(M1)), Mem(KMessages, m)>>), FALSE) : m \in MsgArrays \cup MsgOdd}
    \cup {Render(Obj(<<Mem(KModel, v), Mem(KMessages, OneMsg)>>), FALSE) :
            v \in {Str(<<"M", "1">>), Str(<<"m", "1", "2">>), Str(<<"m">>), Str(M2),
                   Str(DefaultModel), Num(<<"1">>), [t |-> "null"]}}
    \cup { Render(Obj(<<Mem(KMessages, OneMsg)>>), FALSE),
           Render(Obj(<<Mem(KModel, Str(M1))>>), FALSE),
           Render(Obj(<<>>), FALSE),
           Render(Obj(<<Mem(KMessages, OneMsg), Mem(KStream, [t |-> "bool", b |-> FALSE]),
                        Mem(KModel, Str(M1)), Mem(KSeed, Num(<<"4", "2">>)),
                        Mem(KUser, Obj(<<Mem(KRole, Arr(<<Num(<<"0">>), [t |-> "null"]>>))>>))>>), TRUE),
           Render(Obj(<<Mem(KModel, Str(M1)), Mem(KSeed, Num(BigSeed)), Mem(KMessages, OneMsg)>>), FALSE),
           Render(Obj(<<Mem(KInput, Str(<<"o", "l", "d">>)), Mem(KModel, Str(M1)),
                        Mem(KMessages, OneMsg)>>), FALSE),
           Render(Obj(<<Mem(KModel, Str(M2)), Mem(KModel, Str(M1)), Mem(KMessages, OneMsg)>>), TRUE) }

\* Request bodies that are not JSON objects: empty, plain text, a truncated
\* object, an object followed by text, an array, a string, null.
OtherBodies ==
    { <<>>,
      <<"h", "e", "l", "l", "o">>,
      SubSeq(Render(Obj(<<Mem(KModel, Str(M1)), Mem(KMessages, OneMsg)>>), FALSE), 1, 20),
      Render(Obj(<<Mem(KModel, Str(M1)), Mem(KMessages, OneMsg)>>), FALSE) \o <<"x">>,
      Render(Arr(<<Obj(<<Mem(KModel, Str(M1)), Mem(KMessages, OneMsg)>>)>>), FALSE),
      Render(Str(M1), FALSE),
      LitNull }

Bodies == ObjectBodies \cup OtherBodies

\* Pieces of a request target as sent: the three marker forms, a piece
\* without the marker ("/v1/completions"), and the marker with its slash
\* percent-encoded.
Pieces ==
    { V1Chat,
      ApiChat,
      <<"/">> \o Marker,
      <<"/", "v", "1", "/", "c", "o", "m", "p", "l", "e", "t", "i", "o", "n", "s">>,
      <<"/", "c", "h", "a", "t", "%", "2", "F", "c", "o", "m", "p", "l", "e", "t", "i", "o", "n", "s">> }

RECURSIVE Concat(_)
Concat(ss) == IF ss = <<>> THEN <<>> ELSE Head(ss) \o Concat(Tail(ss))

\* Request targets of one to MaxSegs pieces.
Targets == {Concat(ss) : ss \in SeqsUpTo(Pieces, MaxSegs) \ {<<>>}}

\* url.PathUnescape for the one escape the targets carry.
Unescape(raw) == ReplaceAll(raw, <<"%", "2", "F">>, <<"/">>)

\* The body stream of a request: where it reads from, its bytes, how many
\* have been read, and whether it was closed.
Stream(src, data) == [src |-> src, data |-> data, off |-> 0, closed |-> FALSE]

\* A reader over b that is already at its end.
DrainedBuffer(b) == [src |-> "buffer", data |-> b, off |-> Len(b), closed |-> FALSE]

\* io.NopCloser(bytes.NewBuffer(b))
NewBuffer(b) == Stream("buffer", b)

\* The *http.Request net/http hands to the first handler for a request
\* line with target raw and a body of the given bytes: URL.RawPath is set
\* only when raw is not the default encoding of URL.Path; ContentLength is
\* the declared length, or -1 when none was declared (chunked).
Request(raw, body, declared) ==
    [ Path          |-> Unescape(raw),
      RawPath       |-> IF Unescape(raw) = raw THEN <<>> ELSE raw,
      RequestURI    |-> raw,
      ContentLength |-> IF declared THEN Len(body) ELSE -1,
      Body          |-> Stream("conn", body) ]

\* Bodies for every outcome of the handler: a match with a usable message
\* (for either configuration), a match without one, plain text.
CoreBodies ==
    { Render(Obj(<<Mem(KModel, Str(M1)), Mem(KMessages, OneMsg)>>), FALSE),
      Render(Obj(<<Mem(KModel, Str(DefaultModel)), Mem(KMessages, OneMsg)>>), FALSE),
      Render(Obj(<<Mem(KModel, Str(M1)), Mem(KMessages, Arr(<<>>))>>), FALSE),
      <<"h", "e", "l", "l", "o">> }

\* Targets for every outcome of the path handling: a marker form, no
\* marker, and two with a raw path.
CoreTargets ==
    { V1Chat,
      <<"/", "v", "1", "/", "c", "o", "m", "p", "l", "e", "t", "i", "o", "n", "s">>,
      <<"/", "c", "h", "a", "t", "%", "2", "F", "c", "o", "m", "p", "l", "e", "t", "i", "o", "n", "s">>,
      <<"/", "a", "%", "2", "F", "b">> \o ApiChat }

\* Every target with the core bodies, and every body with the core targets.
Requests ==
    {Request(raw, body, d) : raw \in Targets, body \in CoreBodies, d \in BOOLEAN}
    \cup {Request(raw, body, d) : raw \in CoreTargets, body \in Bodies, d \in BOOLEAN}

\* The target_models lists the configuration may carry (none, or several).
Configs == {<<>>, <<M2, M1>>}

\* ------------------------------------------------------------ the handler

VARIABLES
    TargetModels,   \* m.TargetModels after Provision
    inbound,        \* the request as it arrived (never changed)
    r,              \* the request the handler works on
    pc,             \* the handler's position
    readErr,        \* local err of io.ReadAll: "unread", "ok" or "failed"
    bodyBytes,      \* local bodyBytes
    requestData,    \* local requestData
    shouldRewrite,  \* local shouldRewrite
    fwd,            \* the requests passed to next.ServeHTTP, in order
    ret             \* what ServeHTTP returned

vars == <<TargetModels, inbound, r, pc, readErr, bodyBytes, requestData, shouldRewrite, fwd, ret>>

NotReturned == [kind |-> "none", status |-> 0]

\* return next.ServeHTTP(w, r): whatever the next stage returns.
FromNext == [kind |-> "next", status |-> 0]

\* return caddyhttp.Error(status, err)
HandlerError(status) == [kind |-> "error", status |-> status]

\* Provision: an empty target list becomes the built-in default.
Provision(targets) == IF Len(targets) = 0 THEN <<DefaultModel>> ELSE targets

Init ==
    /\ TargetModels \in {Provision(c) : c \in Configs}
    /\ inbound \in Requests
    /\ r = inbound
    /\ pc = "filtering"
    /\ readErr = "unread"
    /\ bodyBytes = <<>>
    /\ requestData = EmptyMap
    /\ shouldRewrite = FALSE
    /\ fwd = <<>>
    /\ ret = NotReturned

\* return next.ServeHTTP(w, req)
CallNext(req) ==
    /\ fwd' = Append(fwd, req)
    /\ ret' = FromNext
    /\ pc' = "done"

\* A prefix comparison in place of equality.
SameModelPrefix(model, target) ==
    Len(target) <= Len(model) /\ SubSeq(model, 1, Len(target)) = target

\* The comparison of one model value with one target: Go's string ==.
SameModel(model, target) == model = target

\* Lines 171-196: model is a string equal to one of the targets.
ModelMatches(data, targets) ==
    /\ KModel \in DOMAIN data
    /\ data[KModel].t = "str"
    /\ \E i \in 1..Len(targets) : SameModel(data[KModel].s, targets[i])

\* The rewrite with every occurrence replaced (strings.Replace with n = -1).
RewriteAll(p) ==
    IF Contains(p, V1Chat) THEN ReplaceAll(p, V1Chat, V1Responses)
    ELSE IF Contains(p, ApiChat) THEN ReplaceAll(p, ApiChat, ApiResponses)
    ELSE ReplaceAll(p, Marker, Responses)

\* Lines 203-210 (and 221-227 for RawPath): the versioned form first,
\* then the API-prefix form, then the bare marker.
Rewrite(p) ==
    IF Contains(p, V1Chat) THEN Replace1(p, V1Chat, V1Responses)
    ELSE IF Contains(p, ApiChat) THEN Replace1(p, ApiChat, ApiResponses)
    ELSE Replace1(p, Marker, Responses)

\* Lines 86-108: whether a message contributes its content.
Usable(msg) ==
    /\ msg.t = "obj"
    /\ KContent \in DOMAIN msg.o
    /\ msg.o[KContent].t = "str"
    /\ msg.o[KContent].s # <<>>

\* Lines 85-109: the loop over messagesArray, appending to contents.
RECURSIVE Contents(_, _)
Contents(msgs, contents) ==
    IF msgs = <<>> THEN contents
    ELSE Contents(Tail(msgs),
                  IF Usable(Head(msgs)) THEN Append(contents, Head(msgs).o[KContent].s)
                  ELSE contents)

\* The conversion with the separator written before every content.
ConvertLeading(data) ==
    IF KMessages \notin DOMAIN data THEN [err |-> TRUE, input |-> <<>>]
    ELSE IF data[KMessages].t # "arr" THEN [err |-> TRUE, input |-> <<>>]
    ELSE LET contents == Contents(data[KMessages].a, <<>>) IN
         IF Len(contents) = 0 THEN [err |-> TRUE, input |-> <<>>]
         ELSE [err |-> FALSE, input |-> JoinLeading(contents, <<"\n">>)]

\* The conversion without the check for an empty contents slice.
ConvertUnchecked(data) ==
    IF KMessages \notin DOMAIN data THEN [err |-> TRUE, input |-> <<>>]
    ELSE IF data[KMessages].t # "arr" THEN [err |-> TRUE, input |-> <<>>]
    ELSE [err |-> FALSE, input |-> Join(Contents(data[KMessages].a, <<>>), <<"\n">>)]

\* convertMessagesToInput
ConvertMessagesToInput(data) ==
    IF KMessages \notin DOMAIN data THEN [err |-> TRUE, input |-> <<>>]
    ELSE IF data[KMessages].t # "arr" THEN [err |-> TRUE, input |-> <<>>]
    ELSE LET contents == Contents(data[KMessages].a, <<>>) IN
         IF Len(contents) = 0 THEN [err |-> TRUE, input |-> <<>>]
         ELSE [err |-> FALSE, input |-> Join(contents, <<"\n">>)]

\* delete(requestData, "messages"); requestData["input"] = input
WithInput(data, input) ==
    [k \in (DOMAIN data \ {KMessages}) \cup {KInput} |->
        IF k = KInput THEN [t |-> "str", s |-> input] ELSE data[k]]

\* The filter testing for "completions" alone.
PathFilterLoose ==
    /\ pc = "filtering"
    /\ IF ~Contains(r.Path, SubSeq(Marker, 6, Len(Marker)))
       THEN CallNext(r)
       ELSE /\ pc' = "buffering"
            /\ UNCHANGED <<fwd, ret>>
    /\ UNCHANGED <<TargetModels, inbound, r, readErr, bodyBytes, requestData, shouldRewrite>>

\* Lines 134-141: a path without the marker goes straight to the next stage.
PathFilter ==
    /\ pc = "filtering"
    /\ IF ~Contains(r.Path, Marker)
       THEN CallNext(r)
       ELSE /\ pc' = "buffering"
            /\ UNCHANGED <<fwd, ret>>
    /\ UNCHANGED <<TargetModels, inbound, r, readErr, bodyBytes, requestData, shouldRewrite>>

\* The read whose error is ignored: the bytes read so far are used.
ReadBodyIgnoreError ==
    /\ pc = "buffering"
    /\ \E got \in {0, Len(r.Body.data)} :
         /\ \E err \in BOOLEAN :
              /\ got < Len(r.Body.data) => err
              /\ readErr' = IF err THEN "failed" ELSE "ok"
              /\ r' = [r EXCEPT !.Body.off = got, !.Body.closed = TRUE]
              /\ bodyBytes' = SubSeq(r.Body.data, 1, got)
              /\ pc' = "decoding"
              /\ UNCHANGED ret
    /\ UNCHANGED <<TargetModels, inbound, requestData, shouldRewrite, fwd>>

\* Lines 146-151: io.ReadAll(r.Body). The read fails before any byte or
\* after the last one, or succeeds, and then the stream is closed.
ReadBody ==
    /\ pc = "buffering"
    /\ \E got \in {0, Len(r.Body.data)} :
         /\ \E err \in BOOLEAN :
              /\ got < Len(r.Body.data) => err
              /\ readErr' = IF err THEN "failed" ELSE "ok"
              /\ IF err
                 THEN /\ r' = [r EXCEPT !.Body.off = got]
                      /\ ret' = HandlerError(StatusBadRequest)
                      /\ pc' = "done"
                      /\ UNCHANGED bodyBytes
                 ELSE /\ r' = [r EXCEPT !.Body.off = got, !.Body.closed = TRUE]
                      /\ bodyBytes' = r.Body.data
                      /\ pc' = "decoding"
                      /\ UNCHANGED ret
    /\ UNCHANGED <<TargetModels, inbound, requestData, shouldRewrite, fwd>>

\* Lines 158-166: json.Unmarshal; on an error the original bytes go on.
Decode ==
    /\ pc = "decoding"
    /\ \E u \in {Unmarshal(bodyBytes)} :
       IF u.err
       THEN /\ r' = [r EXCEPT !.Body = NewBuffer(bodyBytes)]
            /\ CallNext(r')
            /\ UNCHANGED requestData
       ELSE /\ requestData' = u.data
            /\ pc' = "matching"
            /\ UNCHANGED <<r, fwd, ret>>
    /\ UNCHANGED <<TargetModels, inbound, readErr, bodyBytes, shouldRewrite>>

\* Lines 171-199: the model check and the branch on shouldRewrite.
Match ==
    /\ pc = "matching"
    /\ shouldRewrite' = ModelMatches(requestData, TargetModels)
    /\ pc' = IF shouldRewrite' THEN "rewriting" ELSE "forwarding"
    /\ UNCHANGED <<TargetModels, inbound, r, readErr, bodyBytes, requestData, fwd, ret>>

\* Lines 200-232: the path, and the raw path when there is one.
RewritePath ==
    /\ pc = "rewriting"
    /\ r' = [r EXCEPT !.Path = Rewrite(r.Path),
                      !.RawPath = IF r.RawPath # <<>> THEN Rewrite(r.RawPath) ELSE r.RawPath]
    /\ pc' = "transforming"
    /\ UNCHANGED <<TargetModels, inbound, readErr, bodyBytes, requestData, shouldRewrite, fwd, ret>>

\* Lines 235-270: messages -> input and the re-encoding. json.Marshal
\* cannot fail on a value json.Unmarshal produced, so lines 255-262 are
\* never taken.
Transform ==
    /\ pc = "transforming"
    /\ \E c \in {ConvertMessagesToInput(requestData)} :
       IF c.err
       THEN /\ r' = [r EXCEPT !.Body = NewBuffer(bodyBytes)]
            /\ CallNext(r')
            /\ UNCHANGED <<requestData, bodyBytes>>
       ELSE /\ requestData' = WithInput(requestData, c.input)
            /\ bodyBytes' = Marshal(requestData')
            /\ pc' = "forwarding"
            /\ UNCHANGED <<r, fwd, ret>>
    /\ UNCHANGED <<TargetModels, inbound, readErr, shouldRewrite>>

\* Lines 279-283: the final body, its length, and the next stage.
Finalize ==
    /\ pc = "forwarding"
    /\ r' = [r EXCEPT !.Body = NewBuffer(bodyBytes), !.ContentLength = Len(bodyBytes)]
    /\ CallNext(r')
    /\ UNCHANGED <<TargetModels, inbound, readErr, bodyBytes, requestData, shouldRewrite>>

Next ==
    \/ PathFilter
    \/ ReadBody
    \/ Decode
    \/ Match
    \/ RewritePath
    \/ Transform
    \/ Finalize

Spec == Init /\ [][Next]_vars

\* ServeHTTP is straight-line code: once called it runs to its return.
FairSpec == Spec /\ WF_vars(Next)

\* ------------------------------------------------------------- properties
\* What the properties say about a request is read off the inbound request
\* itself: the document its body spells, with exact numbers and repeated
\* keys resolved to the last one.

\* The positions at which sub occurs in s.
Occ(s, sub) == {i \in 1..Len(s) : HasPrefixAt(s, i, sub)}

Min(S) == CHOOSE x \in S : \A y \in S : x <= y

Max(S) == CHOOSE x \in S : \A y \in S : x >= y

\* s with the n characters from position i replaced by new.
ReplaceAt(s, i, n, new) == SubSeq(s, 1, i - 1) \o new \o Tail2(s, i + n)

HasMarker == Occ(inbound.Path, Marker) # {}

InDoc == ParseDocument(inbound.Body.data)

IsObject == InDoc.ok /\ InDoc.v.t = "obj"

Has(obj, k) == \E i \in 1..Len(obj.m) : obj.m[i].k = k

Get(obj, k) == obj.m[Max({i \in 1..Len(obj.m) : obj.m[i].k = k})].v

\* `model` is a string equal to a configured target.
Matches ==
    /\ IsObject
    /\ Has(InDoc.v, KModel)
    /\ Get(InDoc.v, KModel).t = "str"
    /\ Get(InDoc.v, KModel).s \in {TargetModels[i] : i \in 1..Len(TargetModels)}

\* An entry that is an object with a non-empty string `content`.
UsableEntry(e) ==
    /\ e.t = "obj"
    /\ Has(e, KContent)
    /\ Get(e, KContent).t = "str"
    /\ Get(e, KContent).s # <<>>

IsMsgArray == IsObject /\ Has(InDoc.v, KMessages) /\ Get(InDoc.v, KMessages).t = "arr"

InMessages == Get(InDoc.v, KMessages).a

HasUsable == IsMsgArray /\ \E i \in 1..Len(InMessages) : UsableEntry(InMessages[i])

\* The contents of the usable entries, in their order.
Parts ==
    LET sel == SelectSeq(InMessages, UsableEntry)
    IN [k \in 1..Len(sel) |-> Get(sel[k], KContent).s]

\* Where the k-th part starts in the joined string.
RECURSIVE StartOf(_, _)
StartOf(parts, k) ==
    IF k = 1 THEN 1 ELSE StartOf(parts, k - 1) + Len(parts[k - 1]) + 1

\* s is the parts, in order, with exactly one newline between neighbours.
IsJoined(s, parts) ==
    LET n == Len(parts) IN
    /\ Len(s) = StartOf(parts, n) + Len(parts[n]) - 1
    /\ \A k \in 1..n : SubSeq(s, StartOf(parts, k), StartOf(parts, k) + Len(parts[k]) - 1) = parts[k]
    /\ \A k \in 1..(n - 1) : s[StartOf(parts, k) + Len(parts[k])] = "\n"

\* A document with objects as key -> value functions, for comparing
\* payloads whatever the order of their members.
RECURSIVE Canon(_)
Canon(doc) ==
    CASE doc.t = "arr" -> [t |-> "arr", a |-> [i \in 1..Len(doc.a) |-> Canon(doc.a[i])]]
      [] doc.t = "obj" ->
            [t |-> "obj", o |-> [k \in {doc.m[i].k : i \in 1..Len(doc.m)} |-> Canon(Get(doc, k))]]
      [] OTHER -> doc

Done == pc = "done"

\* The next stage was invoked exactly once and its result returned.
Forwarded == Len(fwd) = 1 /\ ret = FromNext

\* The next stage was not invoked and a 400 error returned.
Rejected == Len(fwd) = 0 /\ ret = [kind |-> "error", status |-> StatusBadRequest]

\* The document the forwarded body spells.
FwdDoc == ParseDocument(fwd[1].Body.data)

\* The forwarded path is the inbound one with one marker occurrence
\* replaced by "responses".
PathRewritten ==
    \E i \in Occ(inbound.Path, Marker) :
        fwd[1].Path = ReplaceAt(inbound.Path, i, Len(Marker), Responses)

\* The forwarded body is a new payload with `input` and without `messages`.
BodyTransformed ==
    /\ fwd[1].Body.data # inbound.Body.data
    /\ FwdDoc.ok
    /\ FwdDoc.v.t = "obj"
    /\ Has(FwdDoc.v, KInput)
    /\ ~Has(FwdDoc.v, KMessages)

\* The forwarded body is the inbound one, readable from its start.
OriginalBody ==
    /\ fwd[1].Body.data = inbound.Body.data
    /\ fwd[1].Body.off = 0
    /\ ~fwd[1].Body.closed

\* C1: every run of ServeHTTP ends, and ends either forwarded (next stage
\* invoked exactly once) or rejected (next stage not invoked, 400
\* returned); it is rejected exactly when the path has the marker and the
\* body read failed; the next stage is never invoked twice.
C1_OneTerminalOutcome ==
    /\ <>Done
    /\ [](Len(fwd) <= 1)
    /\ [](Done => /\ Forwarded \/ Rejected
                  /\ ~(Forwarded /\ Rejected)
                  /\ Rejected <=> (HasMarker /\ readErr = "failed"))

C1_Witness == Done /\ Rejected /\ HasMarker /\ readErr = "failed" /\ r.Body.off > 0

\* A marker path whose body was read and spells a JSON object.
C2_Case == Done /\ HasMarker /\ readErr = "ok" /\ IsObject

\* C2 as stated: for a marker path and a JSON object body, the
\* transformation (path rewritten and body replaced by the payload with
\* `input`) occurs if and only if `model` is a string equal to a target.
C2_TransformIffMatch ==
    C2_Case => ((PathRewritten /\ BodyTransformed) <=> Matches)

\* C2 amended: the path is rewritten if and only if `model` is a string
\* equal to a target; the body is replaced by the transformed payload if
\* and only if, in addition, `messages` has a usable entry.
C2_RewriteIffMatch ==
    C2_Case => /\ PathRewritten <=> Matches
               /\ fwd[1].Path # inbound.Path <=> Matches
               /\ BodyTransformed <=> (Matches /\ HasUsable)

C2_Witness == C2_Case /\ Matches /\ PathRewritten /\ BodyTransformed

\* C3: whenever the next stage is invoked after the body was buffered, the
\* forwarded content-length is the byte count of the forwarded body.
C3_ContentLengthExact ==
    (Done /\ readErr = "ok" /\ Len(fwd) = 1) =>
        fwd[1].ContentLength = Len(fwd[1].Body.data)

\* A marker path, body read, and no transformation called for: the body is
\* no JSON object, or `model` is missing, no string, or equal to no target.
C4_Case == Done /\ HasMarker /\ readErr = "ok" /\ ~Matches

\* C4: in that case the next stage receives the inbound path, raw path and
\* body bytes, the body readable from its start, and the stage returns no
\* error of its own.
C4_PassThrough ==
    C4_Case => /\ Forwarded
               /\ fwd[1].Path = inbound.Path
               /\ fwd[1].RawPath = inbound.RawPath
               /\ OriginalBody

C4_Witness == C4_Case /\ IsObject /\ Has(InDoc.v, KModel) /\ inbound.RawPath # <<>>

\* The model matches but `messages` is absent, no sequence, empty, or
\* without a usable entry.
C5_Case == Done /\ HasMarker /\ readErr = "ok" /\ Matches /\ ~HasUsable

\* C5: then the next stage is invoked once with the original body bytes,
\* and the path stays rewritten.
C5_FallbackKeepsRewrite ==
    C5_Case => /\ Forwarded
               /\ OriginalBody
               /\ PathRewritten
               /\ fwd[1].Path # inbound.Path

C5_Witness == C5_Case /\ IsMsgArray /\ Len(InMessages) >= 2

\* The conversion has returned an input.
C6_Case ==
    /\ pc \in {"forwarding", "done"}
    /\ HasMarker /\ readErr = "ok" /\ Matches /\ HasUsable

\* C6: convertMessagesToInput returns the contents of exactly the usable
\* entries, in order, joined by single newlines with none leading or
\* trailing; other entries are skipped and `role` plays no part.
C6_InputIsJoinedContents ==
    C6_Case => /\ KInput \in DOMAIN requestData
               /\ requestData[KInput].t = "str"
               /\ IsJoined(requestData[KInput].s, Parts)

C6_Witness ==
    /\ C6_Case /\ pc = "forwarding"
    /\ Len(Parts) >= 2
    /\ Len(InMessages) > Len(Parts)
    /\ KInput \in DOMAIN requestData

\* The model matches, so the path is rewritten.
C7_Case == Done /\ HasMarker /\ readErr = "ok" /\ Matches

\* The occurrence of the marker the rewrite picks: that of the leftmost
\* "/v1/chat/completions" if there is one, else that of the leftmost
\* "/api/chat/completions" if there is one, else the leftmost marker.
Picked(p) ==
    IF Occ(p, V1Chat) # {} THEN Min(Occ(p, V1Chat)) + 4
    ELSE IF Occ(p, ApiChat) # {} THEN Min(Occ(p, ApiChat)) + 5
    ELSE Min(Occ(p, Marker))

\* C7 as stated: the leftmost occurrence of the marker is the one replaced,
\* also when the occurrences are in different forms.
C7_LeftmostReplaced ==
    C7_Case => fwd[1].Path =
        ReplaceAt(inbound.Path, Min(Occ(inbound.Path, Marker)), Len(Marker), Responses)

\* C7 amended: exactly one occurrence is replaced, the picked one, and the
\* rest of the path is unchanged; it is the leftmost occurrence of the
\* marker unless an occurrence of a lower-ranked form comes first.
C7_PickedReplaced ==
    C7_Case =>
        /\ fwd[1].Path = ReplaceAt(inbound.Path, Picked(inbound.Path), Len(Marker), Responses)
        /\ (\/ Occ(inbound.Path, V1Chat) = {i - 4 : i \in Occ(inbound.Path, Marker)}
            \/ Occ(inbound.Path, ApiChat) = {i - 5 : i \in Occ(inbound.Path, Marker)}
            \/ Occ(inbound.Path, V1Chat) \cup Occ(inbound.Path, ApiChat) = {})
           => Picked(inbound.Path) = Min(Occ(inbound.Path, Marker))

C7_Witness ==
    /\ C7_Case
    /\ Cardinality(Occ(inbound.Path, Marker)) >= 2
    /\ Picked(inbound.Path) # Min(Occ(inbound.Path, Marker))
    /\ Occ(fwd[1].Path, Marker) # {}

\* C8: after a successful transform the forwarded payload has the keys of
\* the original minus `messages` plus `input`, and every other key keeps
\* its value.
C8_OtherFieldsKept ==
    (Done /\ HasMarker /\ readErr = "ok" /\ Matches /\ HasUsable) =>
        /\ FwdDoc.ok
        /\ FwdDoc.v.t = "obj"
        /\ LET o == Canon(InDoc.v).o
               f == Canon(FwdDoc.v).o
           IN /\ DOMAIN f = (DOMAIN o \ {KMessages}) \cup {KInput}
              /\ \A k \in DOMAIN o \ {KMessages, KInput} : f[k] = o[k]

\* C9: a request whose path lacks the marker reaches the next stage as it
\* came: body stream not read or replaced, path, raw path, content-length
\* and body bytes the inbound ones.
C9_Untouched ==
    (Done /\ ~HasMarker) => /\ Forwarded
                            /\ fwd[1] = inbound
                            /\ readErr = "unread"

C9_Witness ==
    /\ Done /\ ~HasMarker /\ Len(fwd) = 1
    /\ Matches
    /\ inbound.ContentLength = -1

\* C10: once the path has been rewritten, the raw path (when there is one)
\* and the cached request target name the same endpoint as the path.
C10_PathsConsistent ==
    (Done /\ Len(fwd) = 1 /\ fwd[1].Path # inbound.Path) =>
        /\ fwd[1].RawPath # <<>> => Unescape(fwd[1].RawPath) = fwd[1].Path
        /\ Unescape(fwd[1].RequestURI) = fwd[1].Path

====
